---- MODULE Spec2Model ----
(***************************************************************************)
(* The migration runner of masoniteorm (migrations/Migration.py): the      *)
(* ledger table "migrations", the migration directory, and the methods     *)
(* migrate, rollback, rollback_all, reset and refresh of class Migration.  *)
(*                                                                         *)
(* A loop iteration of a method is one step.  What an iteration gets from  *)
(* outside the class (whether pydoc.locate finds the class, whether up()   *)
(* or down() raises, whether the unit's schema holds a blueprint, the      *)
(* order in which listdir lists the directory) is an input of the step.    *)
(***************************************************************************)
EXTENDS Integers, Sequences, FiniteSets, TLC

\* Number of migration files that can exist in the directory.
MaxFiles == 3
\* Longest last_migrations_ran a runner object is followed to.
MaxRan == 3
\* Largest batch number a migrate() call is started from.
MaxBatch == 3

Runners == {1, 2}

(***************************************************************************)
(* File names are strings, modelled as sequences of character codes so     *)
(* that list.sort() has an order to compute.  Name(1..4) = "1", "11", "2", *)
(* "22"; the package marker starts with "_" (95) and the cache directory   *)
(* with "_" too.                                                           *)
(***************************************************************************)
Name(i) == IF i % 2 = 1 THEN << 48 + (i + 1) \div 2 >>
                        ELSE << 48 + i \div 2, 48 + i \div 2 >>

FileNames == { Name(i) : i \in 1..MaxFiles }

InitPy == << 95, 95, 105 >>

PyCache == << 95, 95, 112 >>

\* Python's str.__lt__: code-point lexicographic order, a proper prefix first.
RECURSIVE StrLess(_, _)
StrLess(a, b) ==
    IF b = << >> THEN FALSE
    ELSE IF a = << >> THEN TRUE
    ELSE IF Head(a) # Head(b) THEN Head(a) < Head(b)
    ELSE StrLess(Tail(a), Tail(b))

\* list.sort(): insertion of each element into an ascending list.
RECURSIVE SortInsert(_, _)
SortInsert(x, s) ==
    IF s = << >> THEN << x >>
    ELSE IF StrLess(Head(s), x) THEN << Head(s) >> \o SortInsert(x, Tail(s))
    ELSE << x >> \o s

RECURSIVE ListSort(_)
ListSort(s) == IF s = << >> THEN << >> ELSE SortInsert(Head(s), ListSort(Tail(s)))

Range(s) == { s[i] : i \in 1..Len(s) }

RECURSIVE Reverse(_)
Reverse(s) == IF s = << >> THEN << >> ELSE Reverse(Tail(s)) \o << Head(s) >>

RECURSIVE Orders(_)
Orders(S) ==
    IF S = {} THEN { << >> }
    ELSE UNION { { << x >> \o p : p \in Orders(S \ {x}) } : x \in S }

\* os.listdir of a directory that holds the migration files S: the order of
\* the entries is arbitrary.  The files come in every order; the package
\* marker and the cache directory come first and last, either way round.
listdir(S) ==
    UNION { { << InitPy >> \o p \o << PyCache >>, << PyCache >> \o p \o << InitPy >> } :
            p \in Orders(S) }

\* os.path.isfile: the cache directory is the one entry that is no file.
isfile(f) == f # PyCache

VARIABLES
    files,                \* names of the migration files in the directory
    ledger,               \* rows of table migrations, in migration_id order
    command_class,        \* [runner]: a reporting collaborator is configured
    last_migrations_ran,  \* [runner]: self.last_migrations_ran
    pc,                   \* [runner]: where the runner is in its method
    method,               \* [runner]: the method running or run last
    in_refresh,           \* [runner]: the method was entered from refresh()
    output,               \* [runner]: the output argument of the call
    batch,                \* [runner]: local batch of migrate()
    pending,              \* [runner]: the list the method's loop iterates
    idx,                  \* [runner]: index of the loop's next element
    ran_migrations,       \* [runner]: local ran_migrations of rollback_all()
    result,               \* [runner]: how the last call ended
    start,                \* [runner]: the ledger when the method was entered
    ran0,                 \* [runner]: len(last_migrations_ran) at that moment
    log,                  \* [runner]: what the method has done, in order
    prev,                 \* [runner]: the call before this one
    table_exists,         \* the database has the table "migrations"
    dry,                  \* [runner]: the dry argument of __init__
    table0,               \* [runner]: table_exists when the method was entered
    applied               \* [followed name]: real up() calls since the last real down()

vars == << files, ledger, command_class, last_migrations_ran, pc, method,
           in_refresh, output, batch, pending, idx, ran_migrations, result,
           start, ran0, log, prev, table_exists, dry, table0, applied >>

NoCall == [method |-> "none", result |-> "none", output |-> FALSE, start |-> << >>,
           table |-> FALSE]

\* What the database and the runners' dry flags are when no step touches them.
dbvars == << table_exists, dry, table0 >>

\* The runners and the directory before any call, whatever the database holds.
InitRunners ==
    /\ files = {}
    /\ ledger = << >>
    /\ last_migrations_ran = [r \in Runners |-> << >>]
    /\ pc = [r \in Runners |-> "idle"]
    /\ method = [r \in Runners |-> "none"]
    /\ in_refresh = [r \in Runners |-> FALSE]
    /\ output = [r \in Runners |-> FALSE]
    /\ batch = [r \in Runners |-> 0]
    /\ pending = [r \in Runners |-> << >>]
    /\ idx = [r \in Runners |-> 1]
    /\ ran_migrations = [r \in Runners |-> << >>]
    /\ result = [r \in Runners |-> "none"]
    /\ start = [r \in Runners |-> << >>]
    /\ ran0 = [r \in Runners |-> 0]
    /\ log = [r \in Runners |-> << >>]
    /\ prev = [r \in Runners |-> NoCall]
    /\ dry = [r \in Runners |-> FALSE]
    /\ table0 = [r \in Runners |-> FALSE]

\* The table "migrations" has been created and is empty.  Nothing in
\* Migration.py reads what the units do to the schema, so here no unit's
\* changes are followed: applied has an empty domain and stays as it is.
Init ==
    /\ InitRunners
    /\ command_class = [r \in Runners |-> FALSE]
    /\ table_exists = TRUE
    /\ applied = [f \in {} |-> 0]

(***************************************************************************)
(* The ledger (MigrationModel) and the collection helpers it is read with. *)
(***************************************************************************)
Pluck(rows, key) == [i \in 1..Len(rows) |-> rows[i][key]]

\* Collection.max(key): the largest value, 0 for an empty collection.
CollectionMax(rows, key) ==
    IF rows = << >> THEN 0
    ELSE CHOOSE v \in Range(Pluck(rows, key)) : \A w \in Range(Pluck(rows, key)) : w <= v

\* MigrationModel.create: one more row, with the next migration_id.
ModelCreate(rows, name, b) == Append(rows, [migration |-> name, batch |-> b])

\* where(column, value).delete()
WhereDelete(rows, key, value) == SelectSeq(rows, LAMBDA row : row[key] # value)

\* where_in(column, values).delete(): no row goes when no value matches.
WhereInDelete(rows, key, values) ==
    SelectSeq(rows, LAMBDA row : row[key] \notin Range(values))

\* where(column, value).get()
WhereGet(rows, key, value) == SelectSeq(rows, LAMBDA row : row[key] = value)

\* order_by("migration_id", "desc")
OrderByIdDesc(rows) == Reverse(rows)

\* Schema.has_table("migrations"): the database is asked.
has_table(t) == t

\* with self.schema.create("migrations") as table: ...  A dry schema compiles
\* the statement and does not send it, so the database is left as it was.
schema_create(t, d) == IF d THEN t ELSE TRUE

(***************************************************************************)
(* The queries of class Migration.                                         *)
(***************************************************************************)
\* get_unran_migrations without the test against the ledger.
get_unran_migrations_all(listing, rows) ==
    ListSort(SelectSeq(listing, LAMBDA f : isfile(f) /\ f # InitPy))

\* get_unran_migrations, with the directory listing it reads as a parameter.
get_unran_migrations(listing, rows) ==
    LET all_migrations ==
            ListSort(SelectSeq(listing, LAMBDA f : isfile(f) /\ f # InitPy))
    IN  SelectSeq(all_migrations,
                  LAMBDA migration : migration \notin Range(Pluck(rows, "migration")))

get_rollback_migrations(rows) ==
    Pluck(OrderByIdDesc(WhereGet(rows, "batch", CollectionMax(rows, "batch"))),
          "migration")

\* get_all_migrations without its reverse branch.
get_all_migrations_forward(rows, reverse) == Pluck(rows, "migration")

\* get_all_migrations with its reverse branch taken always.
get_all_migrations_backward(rows, reverse) == Pluck(OrderByIdDesc(rows), "migration")

\* get_all_migrations reading the latest batch only.
get_all_migrations_latest(rows, reverse) == get_rollback_migrations(rows)

get_all_migrations(rows, reverse) ==
    IF reverse THEN Pluck(OrderByIdDesc(rows), "migration")
    ELSE Pluck(rows, "migration")

\* get_last_batch_number counting the rows instead of taking the largest batch.
get_last_batch_number_count(rows) == Len(rows)

get_last_batch_number(rows) == CollectionMax(rows, "batch")

\* delete_migration without its where clause: every row goes.
delete_migration_all(rows, file_path) == << >>

delete_migration(rows, file_path) == WhereDelete(rows, "migration", file_path)

delete_migrations(rows, migrations) == WhereInDelete(rows, "migration", migrations)

\* The row write of migrate, skipped when the name is already in the ledger.
record_unless_present(rows, migration, b) ==
    IF migration \in Range(Pluck(rows, "migration")) THEN rows
    ELSE ModelCreate(rows, migration, b)

\* self.migration_model.create({"batch": batch, "migration": migration})
record(rows, migration, b) == ModelCreate(rows, migration, b)

Ev(e, m) == [ev |-> e, m |-> m]

\* migration_class.up() on a schema that is not dry: the unit's forward change
\* is made once more (counted up to twice since its last real revert).
RealUp(a, m) ==
    IF m \in DOMAIN a THEN [a EXCEPT ![m] = IF @ < 2 THEN @ + 1 ELSE @] ELSE a

\* .down() on a schema that is not dry: the unit's change is no longer there.
RealDown(a, m) == IF m \in DOMAIN a THEN [a EXCEPT ![m] = 0] ELSE a

\* What migrate, rollback and create_table_if_not_exists are followed with of
\* the call before them (rollback_all, reset and refresh are followed with
\* nothing of it): a rollback() that has returned or
\* was left by an exception of down(), with the ledger it started from; a
\* migrate() of its own that has returned without output; a
\* create_table_if_not_exists(), with what has_table answered.
ThisCall(r) ==
    IF \/ method[r] = "rollback" /\ result[r] \in {"ok", "Exception"}
       \/ method[r] = "migrate" /\ result[r] = "ok" /\ ~output[r] /\ ~in_refresh[r]
       \/ method[r] = "create_table_if_not_exists"
    THEN [method |-> method[r], result |-> result[r], output |-> output[r],
          start |-> IF method[r] = "rollback" THEN start[r] ELSE << >>,
          table |-> table0[r]]
    ELSE NoCall

(***************************************************************************)
(* The environment: a migration file is added to the directory between two *)
(* runs, and a new Migration object replaces a runner that is not running. *)
(* Either ends what the next call could know of the call before it.        *)
(***************************************************************************)
AddFile(f) ==
    /\ \A r \in Runners : pc[r] = "idle"
    /\ f \in FileNames \ files
    /\ files' = files \cup {f}
    /\ prev' = [r \in Runners |-> NoCall]
    /\ UNCHANGED << ledger, command_class, last_migrations_ran, pc, method,
                    in_refresh, output, batch, pending, idx, ran_migrations,
                    result, start, ran0, log >>
    /\ UNCHANGED << dbvars, applied >>

\* Migration.__init__
Construct(r, cc, d) ==
    /\ pc[r] = "idle"
    /\ last_migrations_ran[r] # << >> \/ command_class[r] # cc \/ dry[r] # d
    /\ dry' = [dry EXCEPT ![r] = d]
    /\ command_class' = [command_class EXCEPT ![r] = cc]
    /\ last_migrations_ran' = [last_migrations_ran EXCEPT ![r] = << >>]
    /\ prev' = [prev EXCEPT ![r] = NoCall]
    /\ UNCHANGED << files, ledger, pc, method, in_refresh, output, batch,
                    pending, idx, ran_migrations, result, start, ran0, log >>
    /\ UNCHANGED << table_exists, table0, applied >>

\* The method returns, or its exception reaches the caller: the locals of the
\* call are gone, and the next call can be made.
Return(r) ==
    /\ pc[r] = "returned"
    /\ pc' = [pc EXCEPT ![r] = "idle"]
    /\ prev' = [prev EXCEPT ![r] = ThisCall(r)]
    /\ method' = [method EXCEPT ![r] = "none"]
    /\ in_refresh' = [in_refresh EXCEPT ![r] = FALSE]
    /\ output' = [output EXCEPT ![r] = FALSE]
    /\ batch' = [batch EXCEPT ![r] = 0]
    /\ pending' = [pending EXCEPT ![r] = << >>]
    /\ idx' = [idx EXCEPT ![r] = 1]
    /\ ran_migrations' = [ran_migrations EXCEPT ![r] = << >>]
    /\ result' = [result EXCEPT ![r] = "none"]
    /\ start' = [start EXCEPT ![r] = << >>]
    /\ ran0' = [ran0 EXCEPT ![r] = 0]
    /\ log' = [log EXCEPT ![r] = << >>]
    /\ UNCHANGED << files, ledger, command_class, last_migrations_ran >>
    /\ table0' = [table0 EXCEPT ![r] = FALSE]
    /\ UNCHANGED << table_exists, dry, applied >>

(***************************************************************************)
(* create_table_if_not_exists(), and a method called while the database    *)
(* has no table "migrations": its first query of the ledger raises.        *)
(***************************************************************************)
create_table_if_not_exists(r) ==
    /\ pc[r] = "idle"
    /\ IF ~has_table(table_exists)
       THEN /\ table_exists' = schema_create(table_exists, dry[r])
            /\ result' = [result EXCEPT ![r] = "True"]
       ELSE /\ UNCHANGED table_exists
            /\ result' = [result EXCEPT ![r] = "False"]
    /\ pc' = [pc EXCEPT ![r] = "returned"]
    /\ method' = [method EXCEPT ![r] = "create_table_if_not_exists"]
    /\ table0' = [table0 EXCEPT ![r] = table_exists]
    /\ start' = [start EXCEPT ![r] = ledger]
    /\ ran0' = [ran0 EXCEPT ![r] = Len(last_migrations_ran[r])]
    /\ log' = [log EXCEPT ![r] = << >>]
    /\ UNCHANGED << files, ledger, command_class, last_migrations_ran, in_refresh,
                    output, batch, pending, idx, ran_migrations, prev, dry, applied >>

Methods == {"migrate", "rollback", "rollback_all", "reset", "refresh"}

QueryNoTable(r, m) ==
    /\ pc[r] = "idle"
    /\ ~table_exists
    /\ pc' = [pc EXCEPT ![r] = "returned"]
    /\ method' = [method EXCEPT ![r] = IF m = "refresh" THEN "reset" ELSE m]
    /\ in_refresh' = [in_refresh EXCEPT ![r] = m = "refresh"]
    /\ result' = [result EXCEPT ![r] = "QueryException"]
    /\ table0' = [table0 EXCEPT ![r] = table_exists]
    /\ start' = [start EXCEPT ![r] = ledger]
    /\ ran0' = [ran0 EXCEPT ![r] = Len(last_migrations_ran[r])]
    /\ log' = [log EXCEPT ![r] = << >>]
    /\ UNCHANGED << files, ledger, command_class, last_migrations_ran, output,
                    batch, pending, idx, ran_migrations, prev, table_exists, dry,
                    applied >>

(***************************************************************************)
(* migrate(output)                                                         *)
(***************************************************************************)
MigrateCall(r, out) ==
    /\ pc[r] = "idle"
    /\ table_exists
    /\ Len(last_migrations_ran[r]) + Cardinality(files) <= MaxRan
    /\ get_last_batch_number(ledger) < MaxBatch
    /\ pc' = [pc EXCEPT ![r] = "migrate_batch"]
    /\ method' = [method EXCEPT ![r] = "migrate"]
    /\ in_refresh' = [in_refresh EXCEPT ![r] = FALSE]
    /\ output' = [output EXCEPT ![r] = out]
    /\ result' = [result EXCEPT ![r] = "running"]
    /\ start' = [start EXCEPT ![r] = ledger]
    /\ ran0' = [ran0 EXCEPT ![r] = Len(last_migrations_ran[r])]
    /\ log' = [log EXCEPT ![r] = << >>]
    /\ pending' = [pending EXCEPT ![r] = << >>]
    /\ idx' = [idx EXCEPT ![r] = 1]
    /\ UNCHANGED << files, ledger, command_class, last_migrations_ran, batch,
                    ran_migrations, prev >>
    /\ table0' = [table0 EXCEPT ![r] = table_exists]
    /\ UNCHANGED << table_exists, dry, applied >>

\* batch = self.get_last_batch_number() + 1
MigrateBatch(r) ==
    /\ pc[r] = "migrate_batch"
    /\ batch' = [batch EXCEPT ![r] = get_last_batch_number(ledger) + 1]
    /\ pc' = [pc EXCEPT ![r] = "migrate_pending"]
    /\ UNCHANGED << files, ledger, command_class, last_migrations_ran, method,
                    in_refresh, output, pending, idx, ran_migrations, result,
                    start, ran0, log, prev >>
    /\ UNCHANGED << dbvars, applied >>

\* for migration in self.get_unran_migrations(): the list is computed once.
MigrateList(r) ==
    /\ pc[r] = "migrate_pending"
    /\ \E listing \in listdir(files) :
         LET unran == get_unran_migrations(listing, ledger)
         IN  /\ pending' = [pending EXCEPT ![r] = unran]
             /\ pc' = [pc EXCEPT ![r] = IF unran = << >> THEN "returned" ELSE "migrate_loop"]
             /\ result' = [result EXCEPT ![r] = IF unran = << >> THEN "ok" ELSE @]
    /\ idx' = [idx EXCEPT ![r] = 1]
    /\ UNCHANGED << files, ledger, command_class, last_migrations_ran, method,
                    in_refresh, output, batch, ran_migrations, start, ran0, log,
                    prev >>
    /\ UNCHANGED << dbvars, applied >>

\* One iteration of the loop of migrate (lines 115-152).
MigrateStep(r, found, raises, blueprint) ==
    /\ pc[r] = "migrate_loop"
    /\ idx[r] <= Len(pending[r])
    /\ LET migration == pending[r][idx[r]]
           last == idx[r] = Len(pending[r])
           todry == IF output[r] THEN << Ev("dry", migration) >> ELSE << >>
       IN
       /\ last_migrations_ran' =
              [last_migrations_ran EXCEPT ![r] = Append(@, migration)]
       /\ \/ \* locate() returned None: calling it raises TypeError
             /\ ~found
             /\ log' = [log EXCEPT ![r] = @ \o << Ev("locate", migration) >>]
             /\ pc' = [pc EXCEPT ![r] = "returned"]
             /\ result' = [result EXCEPT ![r] = "TypeError"]
             /\ UNCHANGED << ledger, idx, applied >>
          \/ \* up() raises
             /\ found /\ raises
             /\ log' = [log EXCEPT ![r] = @ \o << Ev("locate", migration),
                            Ev("instantiate", migration) >> \o todry
                            \o << Ev("up", migration), Ev("raise", migration) >>]
             /\ pc' = [pc EXCEPT ![r] = "returned"]
             /\ result' = [result EXCEPT ![r] = "Exception"]
             /\ UNCHANGED << ledger, idx, applied >>
          \/ \* output: schema._blueprint.to_sql() with no blueprint
             /\ found /\ ~raises /\ output[r] /\ ~blueprint
             /\ log' = [log EXCEPT ![r] = @ \o << Ev("locate", migration),
                            Ev("instantiate", migration) >> \o todry
                            \o << Ev("up", migration), Ev("to_sql", migration) >>]
             /\ pc' = [pc EXCEPT ![r] = "returned"]
             /\ result' = [result EXCEPT ![r] = "AttributeError"]
             /\ UNCHANGED << ledger, idx, applied >>
          \/ \* output with a command class: the table is rendered, then continue
             /\ found /\ ~raises /\ output[r] /\ blueprint /\ command_class[r]
             /\ log' = [log EXCEPT ![r] = @ \o << Ev("locate", migration),
                            Ev("instantiate", migration) >> \o todry
                            \o << Ev("up", migration), Ev("render", migration) >>]
             /\ idx' = [idx EXCEPT ![r] = @ + 1]
             /\ pc' = [pc EXCEPT ![r] = IF last THEN "returned" ELSE @]
             /\ result' = [result EXCEPT ![r] = IF last THEN "ok" ELSE @]
             /\ UNCHANGED << ledger, applied >>
          \/ \* the row is created
             /\ found /\ ~raises
             /\ ~output[r] \/ (blueprint /\ ~command_class[r])
             /\ log' = [log EXCEPT ![r] = @ \o << Ev("locate", migration),
                            Ev("instantiate", migration) >> \o todry
                            \o << Ev("up", migration) >>
                            \o (IF output[r] THEN << Ev("print", migration) >> ELSE << >>)
                            \o << Ev("create", migration) >>]
             /\ ledger' = record(ledger, migration, batch[r])
             /\ applied' = IF output[r] THEN applied ELSE RealUp(applied, migration)
             /\ idx' = [idx EXCEPT ![r] = @ + 1]
             /\ pc' = [pc EXCEPT ![r] = IF last THEN "returned" ELSE @]
             /\ result' = [result EXCEPT ![r] = IF last THEN "ok" ELSE @]
    /\ UNCHANGED << files, command_class, method, in_refresh, output, batch,
                    pending, ran_migrations, start, ran0, prev >>
    /\ UNCHANGED dbvars

(***************************************************************************)
(* rollback(output).  The two queries of get_rollback_migrations read the  *)
(* ledger one after the other; no other runner writes it meanwhile in the  *)
(* specifications that call rollback, so they are read in one step.        *)
(***************************************************************************)
RollbackCall(r, out) ==
    /\ pc[r] = "idle"
    /\ table_exists
    /\ LET names == get_rollback_migrations(ledger)
       IN  /\ pending' = [pending EXCEPT ![r] = names]
           /\ pc' = [pc EXCEPT ![r] = IF names = << >> THEN "returned" ELSE "rollback_loop"]
           /\ result' = [result EXCEPT ![r] = IF names = << >> THEN "ok" ELSE "running"]
    /\ idx' = [idx EXCEPT ![r] = 1]
    /\ method' = [method EXCEPT ![r] = "rollback"]
    /\ in_refresh' = [in_refresh EXCEPT ![r] = FALSE]
    /\ output' = [output EXCEPT ![r] = out]
    /\ start' = [start EXCEPT ![r] = ledger]
    /\ ran0' = [ran0 EXCEPT ![r] = Len(last_migrations_ran[r])]
    /\ log' = [log EXCEPT ![r] = << >>]
    /\ UNCHANGED << files, ledger, command_class, last_migrations_ran, batch,
                    ran_migrations, prev >>
    /\ table0' = [table0 EXCEPT ![r] = table_exists]
    /\ UNCHANGED << table_exists, dry, applied >>

\* One iteration of the loop of rollback (lines 155-191).
RollbackStep(r, found, raises, blueprint) ==
    /\ pc[r] = "rollback_loop"
    /\ idx[r] <= Len(pending[r])
    /\ LET migration == pending[r][idx[r]]
           last == idx[r] = Len(pending[r])
           todry == IF output[r] THEN << Ev("dry", migration) >> ELSE << >>
       IN
       \/ \* self.locate() returned None: calling it raises TypeError
          /\ ~found
          /\ log' = [log EXCEPT ![r] = @ \o << Ev("locate", migration) >>]
          /\ pc' = [pc EXCEPT ![r] = "returned"]
          /\ result' = [result EXCEPT ![r] = "TypeError"]
          /\ UNCHANGED << ledger, idx, applied >>
       \/ \* down() raises
          /\ found /\ raises
          /\ log' = [log EXCEPT ![r] = @ \o << Ev("locate", migration),
                         Ev("instantiate", migration) >> \o todry
                         \o << Ev("down", migration), Ev("raise", migration) >>]
          /\ pc' = [pc EXCEPT ![r] = "returned"]
          /\ result' = [result EXCEPT ![r] = "Exception"]
          /\ UNCHANGED << ledger, idx, applied >>
       \/ \* output with a command class: the table is rendered, then continue
          /\ found /\ ~raises /\ output[r] /\ command_class[r]
          /\ log' = [log EXCEPT ![r] = @ \o << Ev("locate", migration),
                         Ev("instantiate", migration) >> \o todry
                         \o << Ev("down", migration), Ev("render", migration) >>]
          /\ idx' = [idx EXCEPT ![r] = @ + 1]
          /\ pc' = [pc EXCEPT ![r] = IF last THEN "returned" ELSE @]
          /\ result' = [result EXCEPT ![r] = IF last THEN "ok" ELSE @]
          /\ UNCHANGED << ledger, applied >>
       \/ \* output without one: print(schema._blueprint.to_sql()) with no blueprint
          /\ found /\ ~raises /\ output[r] /\ ~command_class[r] /\ ~blueprint
          /\ log' = [log EXCEPT ![r] = @ \o << Ev("locate", migration),
                         Ev("instantiate", migration) >> \o todry
                         \o << Ev("down", migration), Ev("to_sql", migration) >>]
          /\ pc' = [pc EXCEPT ![r] = "returned"]
          /\ result' = [result EXCEPT ![r] = "AttributeError"]
          /\ UNCHANGED << ledger, idx, applied >>
       \/ \* the row is deleted
          /\ found /\ ~raises
          /\ ~output[r] \/ (~command_class[r] /\ blueprint)
          /\ log' = [log EXCEPT ![r] = @ \o << Ev("locate", migration),
                         Ev("instantiate", migration) >> \o todry
                         \o << Ev("down", migration) >>
                         \o (IF output[r] THEN << Ev("print", migration) >> ELSE << >>)
                         \o << Ev("delete", migration) >>]
          /\ ledger' = delete_migration(ledger, migration)
          /\ applied' = IF output[r] THEN applied ELSE RealDown(applied, migration)
          /\ idx' = [idx EXCEPT ![r] = @ + 1]
          /\ pc' = [pc EXCEPT ![r] = IF last THEN "returned" ELSE @]
          /\ result' = [result EXCEPT ![r] = IF last THEN "ok" ELSE @]
    /\ UNCHANGED << files, command_class, last_migrations_ran, method, in_refresh,
                    output, batch, pending, ran_migrations, start, ran0, prev >>
    /\ UNCHANGED dbvars

(***************************************************************************)
(* rollback_all()                                                          *)
(***************************************************************************)
RollbackAllCall(r) ==
    /\ pc[r] = "idle"
    /\ table_exists
    /\ LET names == get_all_migrations(ledger, FALSE)
       IN  /\ pending' = [pending EXCEPT ![r] = names]
           /\ pc' = [pc EXCEPT ![r] = IF names = << >> THEN "returned" ELSE "rollback_all_loop"]
           /\ result' = [result EXCEPT ![r] = IF names = << >> THEN "ok" ELSE "running"]
           \* an empty loop is followed at once by delete_migrations([])
           /\ ledger' = IF names = << >> THEN delete_migrations(ledger, << >>) ELSE ledger
           /\ log' = [log EXCEPT ![r] =
                         IF names = << >> THEN << Ev("delete_migrations", << >>) >> ELSE << >>]
    /\ idx' = [idx EXCEPT ![r] = 1]
    /\ ran_migrations' = [ran_migrations EXCEPT ![r] = << >>]
    /\ method' = [method EXCEPT ![r] = "rollback_all"]
    /\ in_refresh' = [in_refresh EXCEPT ![r] = FALSE]
    /\ output' = [output EXCEPT ![r] = FALSE]
    /\ start' = [start EXCEPT ![r] = ledger]
    /\ ran0' = [ran0 EXCEPT ![r] = Len(last_migrations_ran[r])]
    /\ prev' = [prev EXCEPT ![r] = NoCall]
    /\ UNCHANGED << files, command_class, last_migrations_ran, batch >>
    /\ table0' = [table0 EXCEPT ![r] = table_exists]
    /\ UNCHANGED << table_exists, dry, applied >>

\* One iteration of the loop of rollback_all (lines 195-198); the last one is
\* followed by self.delete_migrations(ran_migrations) (line 200).
RollbackAllStep(r, found, raises) ==
    /\ pc[r] = "rollback_all_loop"
    /\ idx[r] <= Len(pending[r])
    /\ LET migration == pending[r][idx[r]]
           last == idx[r] = Len(pending[r])
           ran == Append(ran_migrations[r], migration)
       IN
       \/ /\ ~found
          /\ log' = [log EXCEPT ![r] = @ \o << Ev("locate", migration) >>]
          /\ pc' = [pc EXCEPT ![r] = "returned"]
          /\ result' = [result EXCEPT ![r] = "TypeError"]
          /\ UNCHANGED << ledger, idx, ran_migrations, applied >>
       \/ /\ found /\ raises
          /\ log' = [log EXCEPT ![r] = @ \o << Ev("locate", migration),
                         Ev("instantiate", migration), Ev("down", migration),
                         Ev("raise", migration) >>]
          /\ pc' = [pc EXCEPT ![r] = "returned"]
          /\ result' = [result EXCEPT ![r] = "Exception"]
          /\ UNCHANGED << ledger, idx, ran_migrations, applied >>
       \/ /\ found /\ ~raises
          /\ log' = [log EXCEPT ![r] = @ \o << Ev("locate", migration),
                         Ev("instantiate", migration), Ev("down", migration),
                         Ev("delete", migration) >>
                         \o (IF last THEN << Ev("delete_migrations", ran) >> ELSE << >>)]
          /\ ledger' = IF last
                       THEN delete_migrations(delete_migration(ledger, migration), ran)
                       ELSE delete_migration(ledger, migration)
          /\ ran_migrations' = [ran_migrations EXCEPT ![r] = ran]
          /\ applied' = RealDown(applied, migration)
          /\ idx' = [idx EXCEPT ![r] = @ + 1]
          /\ pc' = [pc EXCEPT ![r] = IF last THEN "returned" ELSE @]
          /\ result' = [result EXCEPT ![r] = IF last THEN "ok" ELSE @]
    /\ UNCHANGED << files, command_class, last_migrations_ran, method, in_refresh,
                    output, batch, pending, start, ran0, prev >>
    /\ UNCHANGED dbvars

(***************************************************************************)
(* reset() and refresh()                                                   *)
(***************************************************************************)
\* Entry of reset(), called directly or as the first statement of refresh().
ResetEntry(r, refresh) ==
    /\ pc[r] = "idle"
    /\ table_exists
    /\ LET names == get_all_migrations(ledger, TRUE)
       IN  /\ pending' = [pending EXCEPT ![r] = names]
           /\ pc' = [pc EXCEPT ![r] =
                        IF names # << >> THEN "reset_loop"
                        ELSE IF refresh THEN "refresh_migrate" ELSE "returned"]
           /\ result' = [result EXCEPT ![r] =
                            IF names = << >> /\ ~refresh THEN "ok" ELSE "running"]
    /\ idx' = [idx EXCEPT ![r] = 1]
    /\ method' = [method EXCEPT ![r] = "reset"]
    /\ in_refresh' = [in_refresh EXCEPT ![r] = refresh]
    /\ output' = [output EXCEPT ![r] = FALSE]
    /\ start' = [start EXCEPT ![r] = ledger]
    /\ ran0' = [ran0 EXCEPT ![r] = Len(last_migrations_ran[r])]
    /\ log' = [log EXCEPT ![r] = << >>]
    /\ prev' = [prev EXCEPT ![r] = NoCall]
    /\ UNCHANGED << files, ledger, command_class, last_migrations_ran, batch,
                    ran_migrations >>
    /\ table0' = [table0 EXCEPT ![r] = table_exists]
    /\ UNCHANGED << table_exists, dry, applied >>

ResetCall(r) == ResetEntry(r, FALSE)

RefreshCall(r) ==
    /\ Len(last_migrations_ran[r]) + Cardinality(files) <= MaxRan
    /\ ResetEntry(r, TRUE)

\* One iteration of the loop of reset (lines 211-226).
ResetStep(r, found, raises) ==
    /\ pc[r] = "reset_loop"
    /\ idx[r] <= Len(pending[r])
    /\ LET migration == pending[r][idx[r]]
           last == idx[r] = Len(pending[r])
       IN
       \/ /\ ~found
          /\ log' = [log EXCEPT ![r] = @ \o << Ev("locate", migration) >>]
          /\ pc' = [pc EXCEPT ![r] = "returned"]
          /\ result' = [result EXCEPT ![r] = "TypeError"]
          /\ UNCHANGED << ledger, idx, applied >>
       \/ /\ found /\ raises
          /\ log' = [log EXCEPT ![r] = @ \o << Ev("locate", migration),
                         Ev("instantiate", migration), Ev("down", migration),
                         Ev("raise", migration) >>]
          /\ pc' = [pc EXCEPT ![r] = "returned"]
          /\ result' = [result EXCEPT ![r] = "Exception"]
          /\ UNCHANGED << ledger, idx, applied >>
       \/ /\ found /\ ~raises
          /\ log' = [log EXCEPT ![r] = @ \o << Ev("locate", migration),
                         Ev("instantiate", migration), Ev("down", migration),
                         Ev("delete", migration),
                         Ev("delete_migrations", << migration >>) >>]
          /\ ledger' = delete_migrations(delete_migration(ledger, migration),
                                         << migration >>)
          /\ applied' = RealDown(applied, migration)
          /\ idx' = [idx EXCEPT ![r] = @ + 1]
          /\ pc' = [pc EXCEPT ![r] =
                       IF ~last THEN @
                       ELSE IF in_refresh[r] THEN "refresh_migrate" ELSE "returned"]
          /\ result' = [result EXCEPT ![r] =
                           IF last /\ ~in_refresh[r] THEN "ok" ELSE @]
    /\ UNCHANGED << files, command_class, last_migrations_ran, method, in_refresh,
                    output, batch, pending, ran_migrations, start, ran0, prev >>
    /\ UNCHANGED dbvars

\* refresh(): reset() has returned, self.migrate() is called (line 233).
RefreshMigrate(r) ==
    /\ pc[r] = "refresh_migrate"
    /\ pc' = [pc EXCEPT ![r] = "migrate_batch"]
    /\ method' = [method EXCEPT ![r] = "migrate"]
    /\ output' = [output EXCEPT ![r] = FALSE]
    /\ start' = [start EXCEPT ![r] = ledger]
    /\ ran0' = [ran0 EXCEPT ![r] = Len(last_migrations_ran[r])]
    /\ log' = [log EXCEPT ![r] = << >>]
    /\ pending' = [pending EXCEPT ![r] = << >>]
    /\ idx' = [idx EXCEPT ![r] = 1]
    /\ UNCHANGED << files, ledger, command_class, last_migrations_ran, in_refresh,
                    batch, ran_migrations, result, prev >>
    /\ UNCHANGED << dbvars, applied >>

(***************************************************************************)
(* One runner: every method of the class, called one after the other.      *)
(***************************************************************************)
Next ==
    \/ \E f \in FileNames : AddFile(f)
    \/ \E cc \in BOOLEAN : Construct(1, cc, FALSE)
    \/ Return(1)
    \/ \E out \in BOOLEAN : MigrateCall(1, out)
    \/ MigrateBatch(1)
    \/ MigrateList(1)
    \/ \E found, raises, blueprint \in BOOLEAN : MigrateStep(1, found, raises, blueprint)
    \/ \E out \in BOOLEAN : RollbackCall(1, out)
    \/ \E found, raises, blueprint \in BOOLEAN : RollbackStep(1, found, raises, blueprint)
    \/ RollbackAllCall(1)
    \/ \E found, raises \in BOOLEAN : RollbackAllStep(1, found, raises)
    \/ ResetCall(1)
    \/ RefreshCall(1)
    \/ \E found, raises \in BOOLEAN : ResetStep(1, found, raises)
    \/ RefreshMigrate(1)

Spec == Init /\ [][Next]_vars

(***************************************************************************)
(* Two invocations of migrate(), each by a runner of its own, against the  *)
(* same ledger and directory, their steps interleaved.                     *)
(***************************************************************************)
NextRace ==
    \/ \E f \in FileNames : AddFile(f)
    \/ \E r \in Runners, out \in BOOLEAN : MigrateCall(r, out)
    \/ \E r \in Runners : MigrateBatch(r)
    \/ \E r \in Runners : MigrateList(r)
    \/ \E r \in Runners, found, raises, blueprint \in BOOLEAN :
          MigrateStep(r, found, raises, blueprint)

SpecRace == Init /\ [][NextRace]_vars

(***************************************************************************)
(* One runner, dry or not, against a database that has no table            *)
(* "migrations" yet: the table is created, then migrate() is called.       *)
(***************************************************************************)
InitTable ==
    /\ InitRunners
    /\ command_class = [r \in Runners |-> FALSE]
    /\ table_exists = FALSE
    /\ applied = [f \in {} |-> 0]

NextTable ==
    \/ \E f \in FileNames : AddFile(f)
    \/ \E cc, d \in BOOLEAN : Construct(1, cc, d)
    \/ Return(1)
    \/ create_table_if_not_exists(1)
    \/ \E m \in Methods : QueryNoTable(1, m)
    \/ \E out \in BOOLEAN : MigrateCall(1, out)
    \/ MigrateBatch(1)
    \/ MigrateList(1)
    \/ \E found, raises, blueprint \in BOOLEAN : MigrateStep(1, found, raises, blueprint)

SpecTable == InitTable /\ [][NextTable]_vars

(***************************************************************************)
(* One runner, made with a command class or without, calling migrate,      *)
(* rollback, reset and refresh, with what the units do to the schema       *)
(* followed for every file name.  The runner is not replaced by a new      *)
(* object, so MaxRan bounds the units it runs.                             *)
(***************************************************************************)
InitSchema ==
    /\ InitRunners
    /\ \E cc \in BOOLEAN : command_class = [r \in Runners |-> r = 1 /\ cc]
    /\ table_exists = TRUE
    /\ applied = [f \in FileNames |-> 0]

NextSchema ==
    \/ \E f \in FileNames : AddFile(f)
    \/ Return(1)
    \/ \E out \in BOOLEAN : MigrateCall(1, out)
    \/ MigrateBatch(1)
    \/ MigrateList(1)
    \/ \E found, raises, blueprint \in BOOLEAN : MigrateStep(1, found, raises, blueprint)
    \/ \E out \in BOOLEAN : RollbackCall(1, out)
    \/ \E found, raises, blueprint \in BOOLEAN : RollbackStep(1, found, raises, blueprint)
    \/ ResetCall(1)
    \/ RefreshCall(1)
    \/ \E found, raises \in BOOLEAN : ResetStep(1, found, raises)
    \/ RefreshMigrate(1)

SpecSchema == InitSchema /\ [][NextSchema]_vars

(***************************************************************************)
(* Properties.                                                             *)
(***************************************************************************)
Names(rows) == Range(Pluck(rows, "migration"))

Batches(rows) == Range(Pluck(rows, "batch"))

\* The batch the spec gives a migrate() call that starts from the ledger rows.
ExpectedBatch(rows) ==
    IF rows = << >> THEN 1
    ELSE 1 + (CHOOSE b \in Batches(rows) : \A c \in Batches(rows) : c <= b)

\* The names the method has logged the event e for, in order.
Logged(r, e) == Pluck(SelectSeq(log[r], LAMBDA x : x.ev = e), "m")

\* C1: every row a migrate() call has recorded carries one batch number, the
\* largest batch of the ledger at the start of the call plus 1 (1 for an empty
\* ledger), which is greater than every batch recorded before the call.
C1_OneBatchPerMigrate ==
    method[1] = "migrate" =>
        /\ Len(ledger) = Len(start[1]) + Len(Logged(1, "create"))
        /\ \A i \in 1..Len(ledger) :
              i > Len(start[1]) =>
                  /\ ledger[i].migration = Logged(1, "create")[i - Len(start[1])]
                  /\ ledger[i].batch = ExpectedBatch(start[1])
                  /\ \A j \in 1..Len(start[1]) : start[1][j].batch < ledger[i].batch

\* A migrate() has returned that found rows of an earlier batch and recorded two.
C1_Witness ==
    /\ pc[1] = "returned" /\ method[1] = "migrate" /\ result[1] = "ok"
    /\ start[1] # << >>
    /\ Len(ledger) >= Len(start[1]) + 2

\* C7: with one runner, whatever methods it calls and however they end, no two
\* rows of the ledger have the same migration name.
C7_UniqueNames ==
    \A i, j \in 1..Len(ledger) : i # j => ledger[i].migration # ledger[j].migration

\* A migrate() that an error ended had added a row to a ledger that held some.
C7_Witness ==
    /\ pc[1] = "returned" /\ method[1] = "migrate"
    /\ result[1] \in {"TypeError", "Exception"}
    /\ start[1] # << >>
    /\ Len(ledger) > Len(start[1])

\* C8: reset() reverts in reverse order of insertion.  When it calls down() of
\* a row a, every row b inserted after a has had its down() called and has
\* been deleted, in that order; a down() that returns is followed at once by
\* the deletion of its own row; and the ledger is the ledger at the start
\* without the deleted rows.
C8_ResetReverseOrder ==
    method[1] = "reset" =>
        LET names == Pluck(start[1], "migration")
            evs == log[1]
        IN  /\ \A j \in 1..Len(evs) :
                  evs[j].ev = "down" =>
                      /\ \A a, b \in 1..Len(names) :
                            (a < b /\ names[a] = evs[j].m) =>
                                \E k, l \in 1..(j - 1) :
                                    /\ k < l
                                    /\ evs[k].ev = "down" /\ evs[k].m = names[b]
                                    /\ evs[l].ev = "delete" /\ evs[l].m = names[b]
                      /\ j < Len(evs)
                      /\ \/ evs[j + 1].ev = "raise"
                         \/ evs[j + 1].ev = "delete" /\ evs[j + 1].m = evs[j].m
            /\ ledger = SelectSeq(start[1],
                                  LAMBDA row : row.migration \notin Range(Logged(1, "delete")))

\* A reset() has returned that started from three rows of two batches.
C8_Witness ==
    /\ pc[1] = "returned" /\ method[1] = "reset" /\ result[1] = "ok"
    /\ Len(start[1]) = 3
    /\ Cardinality(Batches(start[1])) = 2
    /\ Len(Logged(1, "down")) = 3

\* The ledger an error-free migrate() without output leaves, started from rows
\* in a directory that holds the migration files S.
RECURSIVE RecordAll(_, _, _)
RecordAll(rows, unran, b) ==
    IF unran = << >> THEN rows
    ELSE RecordAll(record(rows, Head(unran), b), Tail(unran), b)

MigrateFrom(rows, S) ==
    RecordAll(rows, get_unran_migrations(CHOOSE l \in listdir(S) : TRUE, rows),
              get_last_batch_number(rows) + 1)

\* C5: a refresh() that returns leaves a ledger with the names that migrate()
\* leaves when run from an empty ledger over the same files, each once and each
\* with batch 1; reset(), called directly or by refresh(), leaves the ledger
\* empty when it returns.
C5_RefreshAsFromEmpty ==
    /\ (pc[1] = "returned" /\ method[1] = "migrate" /\ in_refresh[1] /\ result[1] = "ok") =>
          /\ Names(ledger) = Names(MigrateFrom(<< >>, files))
          /\ Len(ledger) = Cardinality(Names(ledger))
          /\ \A i \in 1..Len(ledger) : ledger[i].batch = 1
    /\ (pc[1] = "returned" /\ method[1] = "reset" /\ result[1] = "ok") => ledger = << >>
    /\ pc[1] = "refresh_migrate" => ledger = << >>

\* A refresh() has returned and left two rows or more.
C5_Witness ==
    /\ pc[1] = "returned" /\ method[1] = "migrate" /\ in_refresh[1] /\ result[1] = "ok"
    /\ Len(ledger) >= 2

\* The rows of the ledger rows that hold the name m.
RowsOf(rows, m) == { i \in 1..Len(rows) : rows[i].migration = m }

\* C10: two interleaved invocations of migrate() that have read the same batch
\* number and the same pending list, and have both returned, have each called
\* up() of every pending migration, and have each written a row for it: the
\* ledger holds two rows with that name, and both carry the same batch number.
C10_RaceDuplicates ==
    ( /\ \A r \in Runners : pc[r] = "returned" /\ method[r] = "migrate" /\ result[r] = "ok"
      /\ batch[1] = batch[2]
      /\ pending[1] = pending[2]
      /\ pending[1] # << >> ) =>
        \A m \in Range(pending[1]) :
            /\ \A r \in Runners : m \in Range(Logged(r, "up")) /\ m \in Range(Logged(r, "create"))
            /\ Cardinality(RowsOf(ledger, m)) = 2
            /\ \A i \in RowsOf(ledger, m) : ledger[i].batch = batch[1]

\* Both invocations have returned, with the same batch and two pending names.
C10_Witness ==
    /\ \A r \in Runners : pc[r] = "returned" /\ method[r] = "migrate" /\ result[r] = "ok"
    /\ batch[1] = batch[2]
    /\ pending[1] = pending[2]
    /\ Len(pending[1]) = 2
    /\ \E i, j \in 1..Len(ledger) :
          i # j /\ ledger[i].migration = ledger[j].migration /\ ledger[i].batch = ledger[j].batch

\* The largest batch of rows, 0 when there is none.
TopBatch(rows) == ExpectedBatch(rows) - 1

\* The rows a migrate() adds for the first n names of its pending list.
NewRows(r, n) == [k \in 1..n |-> [migration |-> pending[r][k], batch |-> ExpectedBatch(start[r])]]

\* C2: a rollback() that returns without error has removed the rows of the
\* largest batch and no other row, and a rollback() that directly follows one
\* has removed the rows of the batch that was second largest before the first.
C2_RollbackOneBatch ==
    (pc[1] = "returned" /\ method[1] = "rollback" /\ result[1] = "ok") =>
        /\ ledger = SelectSeq(start[1], LAMBDA row : row.batch # TopBatch(start[1]))
        /\ (prev[1].method = "rollback" /\ prev[1].result = "ok") =>
              LET before == prev[1].start
                  rest == SelectSeq(before, LAMBDA row : row.batch # TopBatch(before))
              IN  Names(start[1]) \ Names(ledger) =
                      Names(SelectSeq(rest, LAMBDA row : row.batch = TopBatch(rest)))

\* C3: the pending list of migrate() is the files of the directory that are
\* not names of the ledger, the package marker left out, in ascending order;
\* and after a migrate() that returns without error get_unran_migrations()
\* is empty.
C3_PendingThenNone ==
    /\ (method[1] = "migrate" /\ pc[1] \in {"migrate_loop", "returned"}) =>
          /\ Range(pending[1]) = files \ Names(start[1])
          /\ InitPy \notin Range(pending[1])
          /\ \A i, j \in 1..Len(pending[1]) : i < j => StrLess(pending[1][i], pending[1][j])
    /\ (pc[1] = "returned" /\ method[1] = "migrate" /\ result[1] = "ok") =>
          \A listing \in listdir(files) : get_unran_migrations(listing, ledger) = << >>

\* C4: migrate() has written a ledger row for every pending migration it has
\* processed, with output or without, with a command class or without.
C4_RowForEveryProcessed ==
    method[1] = "migrate" =>
        \A k \in 1..(idx[1] - 1) :
            \E i \in 1..Len(ledger) :
                ledger[i].migration = pending[1][k] /\ ledger[i].batch = batch[1]

\* C6: when up() of the k-th pending migration raises, migrate() stops: the
\* ledger is the rows it had plus the first k-1 pending migrations with the
\* new batch number, up() was called for the first k and for no later one.
C6_AbortKeepsFirstRows ==
    (pc[1] = "returned" /\ method[1] = "migrate" /\ result[1] = "Exception") =>
        /\ ledger = start[1] \o NewRows(1, idx[1] - 1)
        /\ Logged(1, "up") = SubSeq(pending[1], 1, idx[1])
        /\ Logged(1, "create") = SubSeq(pending[1], 1, idx[1] - 1)

\* The method has stopped at a file name that locate() did not resolve.
Unresolved(r) ==
    /\ pc[r] = "returned"
    /\ method[r] \in {"migrate", "rollback", "reset"}
    /\ log[r] # << >>
    /\ log[r][Len(log[r])].ev = "locate"

\* C9: a run that meets a file name it cannot resolve ends with
\* MigrationNotFoundError, and the ledger and last_migrations_ran hold only
\* the units processed before that name.
C9_NotFoundLeavesProcessed ==
    Unresolved(1) =>
        /\ result[1] = "MigrationNotFoundError"
        /\ Len(last_migrations_ran[1]) =
              ran0[1] + (IF method[1] = "migrate" THEN idx[1] - 1 ELSE 0)
        /\ ledger = IF method[1] = "migrate" THEN start[1] \o NewRows(1, idx[1] - 1)
                    ELSE SelectSeq(start[1],
                             LAMBDA row : row.migration
                                            \notin Range(SubSeq(pending[1], 1, idx[1] - 1)))

\* C11: create_table_if_not_exists() called twice in a row on a database that
\* has no table "migrations" returns True the first time and False the second,
\* and the second call changes nothing, whatever the runner's dry flag is.
C11_CreateTwice ==
    (pc[1] = "returned" /\ method[1] = "create_table_if_not_exists") =>
        /\ ~table0[1] => result[1] = "True"
        /\ (prev[1].method = "create_table_if_not_exists" /\ ~prev[1].table) =>
               /\ result[1] = "False"
               /\ table_exists = table0[1]
               /\ ledger = start[1]

\* C12: rollback() has removed the ledger row of every migration of the latest
\* batch whose iteration it has completed, whatever output and the command
\* class are, and a rollback() that returns without error has reverted every
\* name of the latest batch and removed exactly their rows.
C12_RowRemovedForEveryReverted ==
    (method[1] = "rollback" /\ pc[1] \in {"rollback_loop", "returned"}) =>
        /\ \A k \in 1..Len(pending[1]) : k < idx[1] => pending[1][k] \notin Names(ledger)
        /\ (pc[1] = "returned" /\ result[1] = "ok") =>
              /\ Logged(1, "down") = pending[1]
              /\ Names(start[1]) \ Names(ledger) =
                     Names(WhereGet(start[1], "batch", TopBatch(start[1])))

\* C13: the ledger never holds a second row for a name: when two runs have both
\* called create for the same name, the ledger holds one row of it and the
\* run that came second has ended with DuplicateMigrationError.
C13_SecondRowRefused ==
    \A m \in FileNames :
        /\ Cardinality(RowsOf(ledger, m)) <= 1
        /\ (\A r \in Runners : m \in Range(Logged(r, "create"))) =>
               \E r \in Runners : result[r] = "DuplicateMigrationError"

\* C14: migrate() takes its pending migrations one after the other in
\* ascending order of file name: when it resolves or instantiates the unit of
\* the next one, up() of the one before has returned and the row of the one
\* before has been written.
C14_OneAfterAnother ==
    (method[1] = "migrate" /\ pc[1] \in {"migrate_loop", "returned"}) =>
        /\ \A i, j \in 1..Len(pending[1]) : i < j => StrLess(pending[1][i], pending[1][j])
        /\ Logged(1, "locate") = SubSeq(pending[1], 1, Len(Logged(1, "locate")))
        /\ \A j \in 1..Len(log[1]) : \A k \in 1..(Len(pending[1]) - 1) :
              (log[1][j].ev \in {"locate", "instantiate"} /\ log[1][j].m = pending[1][k + 1]) =>
                  \E u, c \in 1..(j - 1) :
                      /\ u < c
                      /\ log[1][u] = Ev("up", pending[1][k])
                      /\ log[1][c] = Ev("create", pending[1][k])

\* C15: rollback() takes the names of the latest batch in descending order of
\* migration_id; when down() of the k-th raises, the rows of the k-1 names
\* before it are gone and every other row is as it was; and the rollback()
\* that follows takes exactly the rows of that batch that were left.
C15_AbortedRollbackResumes ==
    (method[1] = "rollback" /\ pc[1] \in {"rollback_loop", "returned"}) =>
        /\ pending[1] =
               Pluck(Reverse(WhereGet(start[1], "batch", TopBatch(start[1]))), "migration")
        /\ result[1] = "Exception" =>
               ledger = SelectSeq(start[1],
                            LAMBDA row : row.migration
                                           \notin Range(SubSeq(pending[1], 1, idx[1] - 1)))
        /\ (prev[1].method = "rollback" /\ prev[1].result = "Exception") =>
               /\ pending[1] # << >>
               /\ pending[1] =
                      Pluck(Reverse(WhereGet(start[1], "batch", TopBatch(prev[1].start))),
                            "migration")

\* C16: rollback_all() takes every name of the ledger in ascending order of
\* insertion, deletes the row of each right after its down(), and returns
\* without error with the ledger empty, all rows being gone already before
\* the delete_migrations call that ends it.
C16_RollbackAllForward ==
    (method[1] = "rollback_all" /\ pc[1] \in {"rollback_all_loop", "returned"}) =>
        /\ pending[1] = Pluck(start[1], "migration")
        /\ Logged(1, "delete") = SubSeq(pending[1], 1, idx[1] - 1)
        /\ \A j \in 1..Len(log[1]) :
              log[1][j].ev = "delete" => (j > 1 /\ log[1][j - 1] = Ev("down", log[1][j].m))
        /\ pc[1] = "rollback_all_loop" =>
              ledger = SubSeq(start[1], idx[1], Len(start[1]))
        /\ (pc[1] = "returned" /\ Logged(1, "down") = pending[1] /\ Logged(1, "raise") = << >>) =>
              /\ result[1] = "ok"
              /\ ledger = << >>
              /\ log[1][Len(log[1])] = Ev("delete_migrations", pending[1])
              /\ SelectSeq(start[1],
                           LAMBDA row : row.migration \notin Range(Logged(1, "delete"))) = << >>

\* A rollback_all() has returned from a ledger of three rows in two batches.
C16_Witness ==
    /\ pc[1] = "returned" /\ method[1] = "rollback_all" /\ result[1] = "ok"
    /\ Len(start[1]) = 3
    /\ Cardinality(Batches(start[1])) = 2
    /\ Len(Logged(1, "down")) = 3

\* C17: rows are inserted and deleted, never changed: while migrate() runs
\* and when it has ended, the rows the ledger had at its start are all there,
\* unchanged and in their places; while rollback() runs and when it has
\* ended, every row left is a row of the start, and the rows outside the
\* latest batch are all there, unchanged.
C17_RowsInsertedOrDeleted ==
    /\ (method[1] = "migrate" /\ pc[1] # "idle") =>
          /\ Len(ledger) >= Len(start[1])
          /\ SubSeq(ledger, 1, Len(start[1])) = start[1]
    /\ (method[1] = "rollback" /\ pc[1] # "idle") =>
          /\ ledger = SelectSeq(start[1], LAMBDA row : row \in Range(ledger))
          /\ SelectSeq(ledger, LAMBDA row : row.batch # TopBatch(start[1])) =
                 SelectSeq(start[1], LAMBDA row : row.batch # TopBatch(start[1]))

\* A rollback() has removed the rows of the latest batch and has left the rows
\* of an earlier batch.
C17_Witness ==
    /\ pc[1] = "returned" /\ method[1] = "rollback" /\ result[1] = "ok"
    /\ ledger # << >>
    /\ Len(ledger) < Len(start[1])

\* The names of the ledger are the units whose forward change is in effect,
\* and no unit's up() has really run twice since its last real down().
LedgerIsSchema ==
    \A m \in FileNames :
        /\ m \in Names(ledger) <=> applied[m] >= 1
        /\ applied[m] <= 1

Gapless(rows) ==
    /\ Batches(rows) = 1..TopBatch(rows)
    /\ \A i, j \in 1..Len(rows) : i < j => rows[i].batch <= rows[j].batch

\* C19: in every state one runner reaches from the empty ledger, states left
\* by a run that an error ended included, the batch numbers of the ledger are
\* 1 up to the largest with no gap, and do not go down in insertion order.
C19_BatchesWithoutGaps == Gapless(ledger)

\* C19 as the code has it: migrate, rollback, reset and refresh, entered with
\* the batch numbers without gap and in order, keep them so in every state
\* they pass through or end in; rollback_all, which deletes from the first
\* row on, does not.
C19_GapsOnlyByRollbackAll ==
    (pc[1] # "idle" /\ method[1] # "rollback_all" /\ Gapless(start[1])) =>
        Gapless(ledger)

\* A rollback() has removed batch 2 and the migrate() after it has written
\* batch 2 again, behind the rows of batch 1.
C19_Witness ==
    /\ pc[1] = "returned" /\ method[1] = "migrate" /\ result[1] = "ok"
    /\ prev[1].method = "rollback" /\ prev[1].result = "ok"
    /\ Len(ledger) > Len(start[1])
    /\ TopBatch(ledger) = 2
    /\ Gapless(ledger)

\* C20: a migrate() that directly follows a migrate() that returned without
\* error and without output, no file added in between, finds nothing pending:
\* it calls no up(), writes no row and leaves the largest batch as it was; and
\* a rollback() on an empty ledger calls no down() and changes nothing.
C20_NothingLeftToDo ==
    /\ (method[1] = "migrate" /\ ~in_refresh[1] /\ pc[1] \in {"migrate_loop", "returned"}
          /\ prev[1].method = "migrate" /\ prev[1].result = "ok" /\ ~prev[1].output) =>
          /\ pending[1] = << >>
          /\ pc[1] = "returned" /\ result[1] = "ok"
          /\ log[1] = << >>
          /\ ledger = start[1]
          /\ get_last_batch_number(ledger) = get_last_batch_number(start[1])
    /\ (method[1] = "rollback" /\ pc[1] # "idle" /\ start[1] = << >>) =>
          /\ pc[1] = "returned" /\ result[1] = "ok"
          /\ log[1] = << >>
          /\ ledger = << >>

\* The migrate() before has left two batches in the ledger; this one has
\* returned.
C20_Witness ==
    /\ pc[1] = "returned" /\ method[1] = "migrate" /\ ~in_refresh[1]
    /\ prev[1].method = "migrate" /\ prev[1].result = "ok" /\ ~prev[1].output
    /\ Cardinality(Batches(start[1])) = 2
    /\ Names(start[1]) = files

====
